---- MODULE Spec2Model ----
(***************************************************************************)
(* FamilyVideoSplitter, inference/transnetv2.py: the sliding-window        *)
(* inference loop of TransNetV2 (predict_video / predict_frames), its      *)
(* streaming scene-event emitter (emit_topic,                              *)
(* find_frames_crossing_threshold) and the offline scene extractor         *)
(* (predictions_to_scenes), driven by main's loop over the input files.    *)
(*                                                                         *)
(* Conventions.  A numpy array is a TLA+ sequence: Python index i is       *)
(* sequence position i + 1.  A score is kept in hundredths (0.75 is 75,    *)
(* the integer score 1 of the final event is 100).  A frame is named by    *)
(* its index in the decoded video.                                         *)
(***************************************************************************)
EXTENDS Integers, Sequences, FiniteSets, TLC

\* ------------------------------------------------------------------ bounds
MaxVideos == 2      \* files on main's command line
MaxHot == 2         \* core positions per window whose score is not the base score
MaxFrames == 110    \* longest video of the length scenario
MaxLen == 5         \* longest video of the scene-extraction scenario
MaxScenarioFrames == 120  \* longest video of the single-crossing scenario

\* ------------------------------------------------------- program constants
thresh == 75
FinalScore == 100
WindowSize == 100
Stride == 50
CoreLo == 25
CoreHi == 75
no_padded_frames_start == 25

\* -------------------------------------------------------------- helpers
Min(a, b) == IF a < b THEN a ELSE b

\* s[lo:hi] of numpy for 0 <= lo: the entries at Python indices lo .. hi-1
\* that exist.
PySlice(s, lo, hi) == SubSeq(s, lo + 1, Min(hi, Len(s)))

Repeat(x, n) == [i \in 1..n |-> x]

\* np.concatenate over a list of arrays.
RECURSIVE Concatenate(_)
Concatenate(arrays) ==
    IF arrays = <<>> THEN <<>>
    ELSE Head(arrays) \o Concatenate(Tail(arrays))

\* ---------------------------------------------------------- window generator
NoPaddedFramesEndFixed(n) == 25

NoPaddedFramesEndNoElse(n) == 25 + 50 - (n % 50)

\* line 77
NoPaddedFramesEnd(n) ==
    25 + 50 - (IF n % 50 # 0 THEN n % 50 ELSE 50)

\* lines 79-83: copies of the first frame, the frames, copies of the last frame
PaddedInputs(fr) ==
    Repeat(fr[1], no_padded_frames_start) \o fr
        \o Repeat(fr[Len(fr)], NoPaddedFramesEnd(Len(fr)))

PaddingTolerant(fr) ==
    IF Len(fr) = 0 THEN [error |-> "", value |-> <<>>]
    ELSE [error |-> "", value |-> PaddedInputs(fr)]

\* lines 76-83 as the first next() of the generator runs them: frames[0]
\* of an empty video raises IndexError
Padding(fr) ==
    IF Len(fr) = 0 THEN [error |-> "frames[0]", value |-> <<>>]
    ELSE [error |-> "", value |-> PaddedInputs(fr)]

HasWindowStrict(padded, p) == p + WindowSize < Len(padded)

\* line 86: the generator has another window to yield
HasWindow(padded, p) == p + WindowSize <= Len(padded)

\* line 87: the window the generator yields
WindowAt(padded, p) == PySlice(padded, p, p + WindowSize)

\* ------------------------------------------------------------------ emitter
\* The emitter part of a TransNetV2 object together with the producer's
\* message log: [prev_scene, scene_number, out].
CrossesInclusive(score) == score >= thresh

\* line 36: predictions > thresh
Crosses(score) == score > thresh

\* lines 27-33
EmitTopic(em, video, cur_frame, score) ==
    [prev_scene |-> cur_frame + 1,
     scene_number |-> em.scene_number + 1,
     out |-> Append(em.out, [video |-> video, start |-> em.prev_scene,
                             end |-> cur_frame, score |-> score,
                             index |-> em.scene_number])]

\* lines 28-32 of an emit_topic whose producer.produce (line 33) raises: the
\* counter and the cursor are already assigned, no message is handed over
EmitTopicRaises(em, video, cur_frame, score) ==
    [prev_scene |-> cur_frame + 1,
     scene_number |-> em.scene_number + 1,
     out |-> em.out]

\* line 36: np.where returns the qualifying indices in increasing order
Where(p) ==
    SelectSeq([k \in 1..Len(p) |-> k - 1], LAMBDA i : Crosses(p[i + 1]))

\* lines 37-39: one emit_topic per qualifying index, in the order of Where
RECURSIVE EmitEach(_, _, _, _, _)
EmitEach(em, video, gap, p, idx) ==
    IF idx = <<>> THEN em
    ELSE EmitEach(EmitTopic(em, video, gap + Head(idx), p[Head(idx) + 1]),
                  video, gap, p, Tail(idx))

\* lines 35-39 (the flush of line 40 is in the Window action)
FindFramesCrossingThreshold(em, video, gap, p) ==
    EmitEach(em, video, gap, p, Where(p))

FinalFrameIsLength(mf) == mf

\* line 102: the end frame of the final event
FinalFrame(mf) == mf + 1

\* ---------------------------------------------------------- scene extractor
\* line 128
Binarize(p) == [k \in 1..Len(p) |-> IF Crosses(p[k]) THEN 1 ELSE 0]

\* lines 132-137: the loop from Python index i on; returns the loop's
\* variables after the last iteration.
RECURSIVE ScanScenesLateStart(_, _, _, _, _)
ScanScenesLateStart(b, i, t_prev, start, scenes) ==
    IF i >= Len(b) THEN [start |-> start, scenes |-> scenes]
    ELSE LET t == b[i + 1]
             start1 == IF t_prev = 1 /\ t = 0 THEN i + 1 ELSE start
             scenes1 == IF t_prev = 0 /\ t = 1 /\ i # 0
                        THEN Append(scenes, <<start1, i>>)
                        ELSE scenes
         IN ScanScenesLateStart(b, i + 1, t, start1, scenes1)

RECURSIVE ScanScenesExclusiveEnd(_, _, _, _, _)
ScanScenesExclusiveEnd(b, i, t_prev, start, scenes) ==
    IF i >= Len(b) THEN [start |-> start, scenes |-> scenes]
    ELSE LET t == b[i + 1]
             start1 == IF t_prev = 1 /\ t = 0 THEN i ELSE start
             scenes1 == IF t_prev = 0 /\ t = 1 /\ i # 0
                        THEN Append(scenes, <<start1, i - 1>>)
                        ELSE scenes
         IN ScanScenesExclusiveEnd(b, i + 1, t, start1, scenes1)

RECURSIVE ScanScenes(_, _, _, _, _)
ScanScenes(b, i, t_prev, start, scenes) ==
    IF i >= Len(b) THEN [start |-> start, scenes |-> scenes]
    ELSE LET t == b[i + 1]
             start1 == IF t_prev = 1 /\ t = 0 THEN i ELSE start
             scenes1 == IF t_prev = 0 /\ t = 1 /\ i # 0
                        THEN Append(scenes, <<start1, i>>)
                        ELSE scenes
         IN ScanScenes(b, i + 1, t, start1, scenes1)

PredictionsToScenesNoFallback(p) ==
    LET b == Binarize(p)
        r == ScanScenes(b, 0, 0, 0, <<>>)
    IN IF Len(b) > 0 /\ b[Len(b)] = 0
       THEN Append(r.scenes, <<r.start, Len(b) - 1>>)
       ELSE r.scenes

\* lines 127-145
PredictionsToScenes(p) ==
    LET b == Binarize(p)
        r == ScanScenes(b, 0, 0, 0, <<>>)
        scenes == IF Len(b) > 0 /\ b[Len(b)] = 0
                  THEN Append(r.scenes, <<r.start, Len(b) - 1>>)
                  ELSE r.scenes
    IN IF Len(scenes) = 0 THEN << <<0, Len(b) - 1>> >> ELSE scenes

\* ---------------------------------------------------------------- inputs
\* A window's single-frame output: 100 scores, `base` everywhere except at
\* the core positions of `marks` (a function from core positions to scores).
Output(base, marks) ==
    [k \in 1..WindowSize |->
        IF (k - 1 - CoreLo) \in DOMAIN marks THEN marks[k - 1 - CoreLo] ELSE base]

\* The outputs with at most `most` marked positions among `positions`.
Outputs(base, positions, scores, most) ==
    { Output(base, marks) :
        marks \in UNION { [ps -> scores] :
                            ps \in { q \in SUBSET positions : Cardinality(q) <= most } } }

\* The main scenario: videos of one or two windows, marks at the first core
\* positions (true frames, the first tail-padding positions of short videos).
FrameCounts == {1, Stride, Stride + 1}
MarkPositions == {0, 1, 2}
MarkScores == {thresh, 90, 100}
SingleOutputs == Outputs(0, MarkPositions, MarkScores, MaxHot)
ManyHotOutputs == { Repeat(0, WindowSize) }

\* The length scenario: every frame count, few score profiles.
LenFrameCounts == 1 .. MaxFrames
LenSingleOutputs == Outputs(0, {0, 49}, {100}, 1)
LenManyHotOutputs == { Repeat(0, WindowSize), Repeat(50, WindowSize) }

\* The scene-extraction scenario: short videos, every score profile over
\* their first MaxLen positions.
SceneFrameCounts == 1 .. MaxLen
SceneScores == {0, thresh, 100}
SceneSingleOutputs ==
    { Output(0, marks) : marks \in [0 .. (MaxLen - 1) -> SceneScores] }

\* The single-crossing scenario: videos of three windows, at most one
\* marked position per window.
ScenarioFrameCounts == 100 .. MaxScenarioFrames
ScenarioSingleOutputs == Outputs(0, {0, 10}, {thresh, 90}, 1)

\* The failure scenario: an empty video, videos of one and two windows, and
\* a model output of 60 scores among the full ones.
FailFrameCounts == {0, 1, Stride + 1}
ShortOutput == SubSeq(Output(0, 0 :> 90), 1, WindowSize - 40)
FailSingleOutputs == Outputs(0, {0, 1}, {90}, 2) \cup {ShortOutput}

\* ------------------------------------------------------------------ state
VARIABLES
    pc,                 \* where main is: "idle", "windows", "returned"
    file,               \* number of files main has started
    calls,              \* predict_video calls made on the current object
    video_path,         \* self.video_path
    prev_scene,         \* self.prev_scene
    scene_number,       \* self.scene_number
    max_frame,          \* self.max_frame
    frames,             \* the decoded video of the current call
    ptr,                \* input_iterator's ptr
    predictions,        \* predict_frames' list of (single, all) core slices
    single_frame_pred,  \* returned to main
    all_frames_pred,    \* returned to main
    scenes,             \* main's scenes
    topic,              \* messages produced for the current video, in order
    flushed,            \* how many of them a flush has followed
    padded_inputs,      \* input_iterator's padded_inputs
    inp,                \* the window the generator yielded last
    error               \* the call that raised out of main, "" if none did

vars == <<pc, file, calls, video_path, prev_scene, scene_number, max_frame,
          frames, ptr, predictions, single_frame_pred, all_frames_pred,
          scenes, topic, flushed, padded_inputs, inp, error>>

Emitter == [prev_scene |-> prev_scene, scene_number |-> scene_number, out |-> topic]

\* lines 22-25: the class attributes a new object reads until it assigns
ClassDefaults ==
    [prev_scene |-> 0, video_path |-> 0, max_frame |-> 0, scene_number |-> 1]

NewObjectShared(cls) ==
    [cls EXCEPT !.prev_scene = prev_scene, !.scene_number = scene_number]

\* lines 21-25, 42-56: a new object has no attribute of its own, so it
\* reads the class attributes, which no method assigns
NewObject(cls) == cls

\* main after line 198: one object constructed, no file started
Init ==
    /\ pc = "idle"
    /\ file = 0
    /\ calls = 0
    /\ video_path = ClassDefaults.video_path
    /\ prev_scene = ClassDefaults.prev_scene
    /\ scene_number = ClassDefaults.scene_number
    /\ max_frame = ClassDefaults.max_frame
    /\ frames = <<>>
    /\ ptr = 0
    /\ predictions = <<>>
    /\ single_frame_pred = <<>>
    /\ all_frames_pred = <<>>
    /\ scenes = <<>>
    /\ topic = <<>>
    /\ flushed = 0
    /\ padded_inputs = <<>>
    /\ inp = <<>>
    /\ error = ""

\* lines 42-56 with 22-25: a caller constructs a new TransNetV2 object and
\* uses it from now on
NewModel ==
    /\ pc = "idle"
    /\ calls > 0
    /\ calls' = 0
    /\ LET obj == NewObject(ClassDefaults)
       IN /\ video_path' = obj.video_path
          /\ prev_scene' = obj.prev_scene
          /\ scene_number' = obj.scene_number
          /\ max_frame' = obj.max_frame
    /\ UNCHANGED <<pc, file, frames, ptr, predictions, single_frame_pred,
                   all_frames_pred, scenes, topic, flushed, padded_inputs,
                   inp, error>>

\* lines 199-201, 109-124, 69-93 with 76-85: main takes the next file,
\* predict_video decodes it into n frames, predict_frames starts its loop and
\* the generator builds the padded sequence
PredictVideoOn(counts, files) ==
    /\ pc = "idle"
    /\ file < files
    /\ \E n \in counts :
        /\ frames' = [k \in 1..n |-> k - 1]
        /\ max_frame' = n
    /\ LET padding == Padding(frames')
       IN /\ padded_inputs' = padding.value
          /\ error' = padding.error
          /\ pc' = IF padding.error = "" THEN "windows" ELSE "raised"
    /\ inp' = <<>>
    /\ file' = file + 1
    /\ calls' = calls + 1
    /\ video_path' = file + 1
    /\ ptr' = 0
    /\ predictions' = <<>>
    /\ single_frame_pred' = <<>>
    /\ all_frames_pred' = <<>>
    /\ scenes' = <<>>
    /\ topic' = <<>>
    /\ flushed' = 0
    /\ UNCHANGED <<prev_scene, scene_number>>

\* lines 86-89, 93-101, 35-40: one iteration of predict_frames' loop
WindowOn(singles, manys) ==
    /\ pc = "windows"
    /\ HasWindow(padded_inputs, ptr)
    /\ inp' = WindowAt(padded_inputs, ptr)
    /\ ptr' = ptr + Stride
    /\ \E single \in singles, many \in manys :
        LET core == PySlice(single, CoreLo, CoreHi)
            em == FindFramesCrossingThreshold(
                      Emitter, video_path, Len(predictions) * 50, core)
        IN /\ prev_scene' = em.prev_scene
           /\ scene_number' = em.scene_number
           /\ topic' = em.out
           /\ flushed' = Len(em.out)
           /\ predictions' = Append(predictions,
                  [single |-> core, all |-> PySlice(many, CoreLo, CoreHi)])
    /\ UNCHANGED <<pc, file, calls, video_path, max_frame, frames,
                   single_frame_pred, all_frames_pred, scenes, padded_inputs,
                   error>>

\* lines 102-107: the generator is exhausted; the final event, the
\* concatenation, the truncation and the return to main
Finish ==
    /\ pc = "windows"
    /\ ~HasWindow(padded_inputs, ptr)
    /\ LET em == EmitTopic(Emitter, video_path, FinalFrame(max_frame), FinalScore)
       IN /\ prev_scene' = em.prev_scene
          /\ scene_number' = em.scene_number
          /\ topic' = em.out
    /\ single_frame_pred' =
          PySlice(Concatenate([k \in 1..Len(predictions) |-> predictions[k].single]),
                  0, Len(frames))
    /\ all_frames_pred' =
          PySlice(Concatenate([k \in 1..Len(predictions) |-> predictions[k].all]),
                  0, Len(frames))
    /\ pc' = "returned"
    /\ UNCHANGED <<file, calls, video_path, max_frame, frames, ptr,
                   predictions, scenes, flushed, padded_inputs, inp, error>>

\* lines 203-207: main saves the predictions and extracts the scenes
ExtractScenes ==
    /\ pc = "returned"
    /\ scenes' = PredictionsToScenes(single_frame_pred)
    /\ pc' = "idle"
    /\ UNCHANGED <<file, calls, video_path, prev_scene, scene_number, max_frame,
                   frames, ptr, predictions, single_frame_pred, all_frames_pred,
                   topic, flushed, padded_inputs, inp, error>>

\* lines 199-201, 109-121: main takes the next file and ffmpeg's run raises
\* in predict_video; nothing catches it, so it leaves main
DecodeRaisesOn(files) ==
    /\ pc = "idle"
    /\ file < files
    /\ file' = file + 1
    /\ calls' = calls + 1
    /\ video_path' = file + 1
    /\ frames' = <<>>
    /\ ptr' = 0
    /\ predictions' = <<>>
    /\ single_frame_pred' = <<>>
    /\ all_frames_pred' = <<>>
    /\ scenes' = <<>>
    /\ topic' = <<>>
    /\ flushed' = 0
    /\ padded_inputs' = <<>>
    /\ inp' = <<>>
    /\ error' = "decode"
    /\ pc' = "raised"
    /\ UNCHANGED <<prev_scene, scene_number, max_frame>>

\* lines 86-89, 93-95, 35-40: an iteration of predict_frames' loop in which
\* the scoring call, a producer.produce or the producer.flush raises; the
\* exception leaves predict_frames, predict_video and main, the local
\* predictions are lost, the object keeps what emit_topic assigned
WindowRaisesOn(singles) ==
    /\ pc = "windows"
    /\ HasWindow(padded_inputs, ptr)
    /\ inp' = WindowAt(padded_inputs, ptr)
    /\ ptr' = ptr + Stride
    /\ \/ /\ error' = "predict_raw"
          /\ UNCHANGED <<prev_scene, scene_number, topic, flushed>>
       \/ \E single \in singles :
            LET core == PySlice(single, CoreLo, CoreHi)
                gap == Len(predictions) * 50
                idx == Where(core)
            IN \/ \E k \in 1..Len(idx) :
                    LET before == EmitEach(Emitter, video_path, gap, core,
                                           SubSeq(idx, 1, k - 1))
                        em == EmitTopicRaises(before, video_path, gap + idx[k],
                                              core[idx[k] + 1])
                    IN /\ prev_scene' = em.prev_scene
                       /\ scene_number' = em.scene_number
                       /\ topic' = em.out
                       /\ error' = "produce"
                       /\ UNCHANGED flushed
               \/ LET em == FindFramesCrossingThreshold(Emitter, video_path, gap, core)
                  IN /\ prev_scene' = em.prev_scene
                     /\ scene_number' = em.scene_number
                     /\ topic' = em.out
                     /\ error' = "flush"
                     /\ UNCHANGED flushed
    /\ predictions' = <<>>
    /\ pc' = "raised"
    /\ UNCHANGED <<file, calls, video_path, max_frame, frames,
                   single_frame_pred, all_frames_pred, scenes, padded_inputs>>

\* line 102 with 27-33: the producer.produce of the final event raises
FinishRaises ==
    /\ pc = "windows"
    /\ ~HasWindow(padded_inputs, ptr)
    /\ LET em == EmitTopicRaises(Emitter, video_path, FinalFrame(max_frame), FinalScore)
       IN /\ prev_scene' = em.prev_scene
          /\ scene_number' = em.scene_number
          /\ topic' = em.out
    /\ error' = "final produce"
    /\ predictions' = <<>>
    /\ pc' = "raised"
    /\ UNCHANGED <<file, calls, video_path, max_frame, frames, ptr,
                   single_frame_pred, all_frames_pred, scenes, flushed,
                   padded_inputs, inp>>

PredictVideo == PredictVideoOn(FrameCounts, MaxVideos)
Window == WindowOn(SingleOutputs, ManyHotOutputs)

Next == NewModel \/ PredictVideo \/ Window \/ Finish \/ ExtractScenes

Spec == Init /\ [][Next]_vars

\* The length scenario: one video of any length up to MaxFrames.
PredictVideoLen == PredictVideoOn(LenFrameCounts, 1)
WindowLen == WindowOn(LenSingleOutputs, LenManyHotOutputs)

NextLen == PredictVideoLen \/ WindowLen \/ Finish \/ ExtractScenes

SpecLen == Init /\ [][NextLen]_vars

\* The scene-extraction scenario: one short video with any score profile.
PredictVideoScene == PredictVideoOn(SceneFrameCounts, 1)
WindowScene == WindowOn(SceneSingleOutputs, ManyHotOutputs)

NextScene == PredictVideoScene \/ WindowScene \/ Finish \/ ExtractScenes

SpecScene == Init /\ [][NextScene]_vars

\* The single-crossing scenario: one predict_video call on a video of three
\* windows, up to its return.
PredictVideoScenario == PredictVideoOn(ScenarioFrameCounts, 1)
WindowScenario == WindowOn(ScenarioSingleOutputs, ManyHotOutputs)

NextScenario == PredictVideoScenario \/ WindowScenario \/ Finish

SpecScenario == Init /\ [][NextScenario]_vars

\* The failure scenario: empty videos, short model outputs and raising
\* collaborators.
PredictVideoFail == PredictVideoOn(FailFrameCounts, MaxVideos)
DecodeRaises == DecodeRaisesOn(MaxVideos)
WindowFail == WindowOn(FailSingleOutputs, ManyHotOutputs)
WindowRaises == WindowRaisesOn(FailSingleOutputs)

NextFail ==
    \/ PredictVideoFail \/ DecodeRaises \/ WindowFail \/ WindowRaises
    \/ Finish \/ FinishRaises \/ ExtractScenes

SpecFail == Init /\ [][NextFail]_vars

\* ================================================================ claims
\* What the claims speak about, read off the state.

\* A video has been started on the command line.
Started == file > 0

\* predict_frames has returned for the current video.
Complete == Started /\ pc # "windows"

\* The end frames gap + i of the core positions scored above the threshold
\* in the windows processed so far.
CrossingEnds ==
    { 50 * (w - 1) + i : <<w, i>> \in
        { c \in (1..Len(predictions)) \X (0..49) :
            predictions[c[1]].single[c[2] + 1] > 75 } }

\* The score the model gave to core position e of the whole video.
ScoreAt(e) == predictions[(e \div 50) + 1].single[(e % 50) + 1]

RECURSIVE Ascending(_)
Ascending(S) ==
    IF S = {} THEN <<>>
    ELSE LET m == CHOOSE x \in S : \A y \in S : x <= y
         IN <<m>> \o Ascending(S \ {m})

\* The events of the current video that the window loop published.
PerWindowEvents ==
    IF pc = "windows" THEN topic ELSE SubSeq(topic, 1, Len(topic) - 1)

\* The events a video with these frames and scores yields from the class
\* defaults: cursor 0, counter 1.
RefEvents ==
    LET ends == Ascending(CrossingEnds)
        m == Len(ends)
        perWindow == [k \in 1..m |->
            [video |-> video_path,
             start |-> IF k = 1 THEN 0 ELSE ends[k - 1] + 1,
             end |-> ends[k], score |-> ScoreAt(ends[k]), index |-> k]]
        final == [video |-> video_path,
                  start |-> IF m = 0 THEN 0 ELSE ends[m] + 1,
                  end |-> Len(frames) + 1, score |-> 100, index |-> m + 1]
    IN IF pc = "windows" THEN perWindow ELSE Append(perWindow, final)

\* The stitched output a video with these scores yields.
RefStitched(field) ==
    [k \in 1..Len(frames) |->
        predictions[((k - 1) \div 50) + 1][field][((k - 1) % 50) + 1]]

\* C1: while the windows of a video are processed only per-window events
\* are published (one per crossing); once all windows are processed exactly
\* one more event has been published, it is the last one, its end frame is
\* max_frame + 1 = N + 1 and its score is 1.0, whatever the scores were.
C1_FinalEvent ==
    /\ (Started /\ pc = "windows") => Len(topic) = Cardinality(CrossingEnds)
    /\ pc = "returned" => max_frame = Len(frames)
    /\ Complete =>
        /\ Len(topic) = Cardinality(CrossingEnds) + 1
        /\ { topic[k].end : k \in 1 .. (Len(topic) - 1) } = CrossingEnds
        /\ topic[Len(topic)].end = Len(frames) + 1
        /\ topic[Len(topic)].score = 100

C1_Witness ==
    /\ Complete
    /\ Len(frames) = 51
    /\ Len(topic) = 3
    /\ topic[3].end = 52

\* The events of the current video with this end frame and score 1.0.
EventsAt(e) == { k \in 1..Len(topic) : topic[k].end = e /\ topic[k].score = 100 }

\* C2 as stated: after a video of N frames exactly one event has
\* end_frame = N and score 1.0.
C2_Original ==
    Complete => Cardinality(EventsAt(Len(frames))) = 1

\* C2 amended: after a video of N frames the last event has end_frame = N + 1
\* and score 1.0, and it is the only such event unless the tail-padding
\* position N + 1 of the last core slice was itself scored 1.0, which adds
\* one per-window event with the same end frame and score.
C2_FinalEventAtNPlus1 ==
    Complete =>
        LET n == Len(frames)
            padded == (n + 1) \in CrossingEnds /\ ScoreAt(n + 1) = 100
        IN /\ Len(topic) \in EventsAt(n + 1)
           /\ Cardinality(EventsAt(n + 1)) = IF padded THEN 2 ELSE 1
           /\ EventsAt(n) \subseteq 1 .. (Len(topic) - 1)

C2_Witness ==
    /\ Complete
    /\ CrossingEnds = {}
    /\ Len(topic) = 1
    /\ EventsAt(Len(frames)) = {}
    /\ EventsAt(Len(frames) + 1) = {1}

\* C3 as stated: the first event of a video has scene_index 1, each event
\* starts one frame after the previous event's end, and scene_index grows
\* by one per event.
C3_Chain ==
    /\ Len(topic) >= 1 => topic[1].index = 1
    /\ \A k \in 1 .. (Len(topic) - 1) :
        /\ topic[k + 1].start = topic[k].end + 1
        /\ topic[k + 1].index = topic[k].index + 1

\* C4 as stated: when processing of a video begins the cursor is 0 and the
\* counter is 1, so the video's first event has start_frame 0 and
\* scene_index 1.
C4_ResetPerVideo ==
    /\ (pc = "windows" /\ ptr = 0) => (prev_scene = 0 /\ scene_number = 1)
    /\ (Started /\ Len(topic) >= 1) => (topic[1].start = 0 /\ topic[1].index = 1)

\* C5: a video processed on a newly constructed object yields the events
\* and the stitched predictions that its own frames and scores determine,
\* whatever was processed before on other objects.
C5_FreshIsolation ==
    (Started /\ calls = 1) =>
        /\ topic = RefEvents
        /\ Complete =>
            /\ single_frame_pred = RefStitched("single")
            /\ all_frames_pred = RefStitched("all")

C5_Witness ==
    /\ Complete
    /\ file = 2
    /\ calls = 1
    /\ Len(topic) = 3
    /\ topic[1].start = 0
    /\ topic[1].index = 1

\* C6: both returned sequences have exactly N entries.
C6_StitchedLength ==
    Complete =>
        /\ Len(single_frame_pred) = Len(frames)
        /\ Len(all_frames_pred) = Len(frames)

C6_Witness ==
    /\ Complete
    /\ Len(frames) = 101
    /\ Len(predictions) = 3
    /\ Len(single_frame_pred) = 101
    /\ Len(all_frames_pred) = 101

\* main has extracted the scenes of the current video.
Extracted == Started /\ pc = "idle"

\* The intervals of scenes that hold index x.
Holding(x) == { k \in 1..Len(scenes) : scenes[k][1] <= x /\ x <= scenes[k][2] }

\* Index x (0-based) of the returned predictions is a boundary frame.
Boundary(x) == single_frame_pred[x + 1] > 75

Indices == 0 .. (Len(single_frame_pred) - 1)

C8_AllBoundary ==
    (Extracted /\ \A x \in Indices : Boundary(x)) =>
        scenes = << <<0, Len(single_frame_pred) - 1>> >>

C8_Witness ==
    /\ Extracted
    /\ Len(single_frame_pred) = 4
    /\ \A x \in Indices : Boundary(x)
    /\ scenes = << <<0, 3>> >>

\* C9: the per-window events are exactly the core positions scored
\* strictly above 0.75, one event each with end_frame = gap + i and that
\* position's score, in increasing order of end frame and with scene
\* indices following that order.
C9_PerWindowEmission ==
    Started =>
        LET ev == PerWindowEvents
            ends == Ascending(CrossingEnds)
        IN /\ Len(ev) = Len(ends)
           /\ \A k \in 1..Len(ev) :
                /\ ev[k].end = ends[k]
                /\ ev[k].score = ScoreAt(ends[k])
                /\ k > 1 => /\ ev[k].end > ev[k - 1].end
                            /\ ev[k].index = ev[k - 1].index + 1

C9_Witness ==
    /\ pc = "windows"
    /\ Len(predictions) = 2
    /\ predictions[1].single[2] = 100
    /\ predictions[1].single[3] = 90
    /\ predictions[2].single[1] = 75
    /\ predictions[2].single[2] = 90
    /\ Len(topic) = 3
    /\ topic[1].end = 1 /\ topic[1].score = 100
    /\ topic[2].end = 2 /\ topic[2].score = 90
    /\ topic[3].end = 51 /\ topic[3].score = 90

\* C10 as stated: once a video has been decoded, 0 <= prev_scene_start <= N.
C10_CursorInRange ==
    Started => (0 <= prev_scene /\ prev_scene <= Len(frames))

\* C11 as stated: from fresh state, a video of N frames whose only score
\* above the threshold is at frame f yields exactly two events, {start 0,
\* end f, index 1} and the final {end N + 1, score 1.0, index 2}, and the
\* cursor ends at f + 1.
C11_SingleCrossing ==
    (pc = "returned" /\ calls = 1) =>
        \A f \in 0 .. (Len(frames) - 1) :
            CrossingEnds = {f} =>
                /\ Len(topic) = 2
                /\ topic[1].start = 0 /\ topic[1].end = f /\ topic[1].index = 1
                /\ topic[2].end = Len(frames) + 1
                /\ topic[2].score = 100
                /\ topic[2].index = 2
                /\ prev_scene = f + 1

\* The padded sequence is `head` copies of the first frame, the frames, and
\* `tail` copies of the last frame.
PaddedAs(head, tail) ==
    LET n == Len(frames)
    IN /\ Len(padded_inputs) = head + n + tail
       /\ \A i \in 1..head : padded_inputs[i] = frames[1]
       /\ \A k \in 1..n : padded_inputs[head + k] = frames[k]
       /\ \A i \in 1..tail : padded_inputs[head + n + i] = frames[n]

\* C12 as stated: 25 head copies; 25 + (50 - N mod 50) tail copies when
\* N mod 50 # 0, and 25 + 50 when N mod 50 = 0.
C12_Original ==
    (Started /\ frames # <<>>) =>
        LET n == Len(frames)
        IN PaddedAs(25, IF n % 50 # 0 THEN 25 + (50 - (n % 50)) ELSE 25 + 50)

\* C12 amended: 25 head copies; 25 + (50 - N mod 50) tail copies when
\* N mod 50 # 0, and 25 when N mod 50 = 0.
C12_Padding ==
    (Started /\ frames # <<>>) =>
        LET n == Len(frames)
        IN PaddedAs(25, IF n % 50 # 0 THEN 25 + (50 - (n % 50)) ELSE 25)

C12_Witness ==
    /\ pc = "windows"
    /\ Len(frames) = 100
    /\ Len(padded_inputs) = 150
    /\ padded_inputs[1] = 0
    /\ padded_inputs[150] = 99

\* C13: the windows are taken at padded offsets 0, 50, 100, ..., each holds
\* exactly 100 frames, true frame k is at position 25 + (k mod 50) of window
\* floor(k / 50), the last window ends where the padded sequence ends, there
\* are as many windows as the true frames need, and stitched entry k is the
\* score of core position k mod 50 of window floor(k / 50).
C13_WindowGeometry ==
    (Started /\ frames # <<>>) =>
        LET n == Len(frames)
            w == Len(predictions)
        IN /\ ptr = 50 * w
           /\ w >= 1 =>
                /\ Len(inp) = 100
                /\ \A j \in 1..100 : inp[j] = padded_inputs[50 * (w - 1) + j]
                /\ \A j \in 0..49 :
                     (50 * (w - 1) + j < n) =>
                        inp[25 + j + 1] = frames[50 * (w - 1) + j + 1]
           /\ Complete =>
                /\ ptr + 50 = Len(padded_inputs)
                /\ 50 * (w - 1) < n /\ n <= 50 * w
                /\ \A k \in 0 .. (n - 1) :
                     single_frame_pred[k + 1] =
                        predictions[(k \div 50) + 1].single[(k % 50) + 1]

C13_Witness ==
    /\ pc = "returned"
    /\ Len(frames) = 101
    /\ Len(predictions) = 3
    /\ ptr = 150
    /\ Len(padded_inputs) = 200
    /\ Len(inp) = 100
    /\ inp[26] = 100
    /\ inp[100] = 100

\* The cursor and the counter an object that started fresh has after
\* handing the events of topic to the transport.
CursorAfterTopic == IF topic = <<>> THEN 0 ELSE topic[Len(topic)].end + 1
CounterAfterTopic == 1 + Len(topic)

\* C14 as stated: after a publish or a flush raised, the cursor and the
\* counter are as the events handed to the transport left them.
C14_FailedPublishKeepsState ==
    (file = 1 /\ error \in {"produce", "flush", "final produce"}) =>
        /\ prev_scene = CursorAfterTopic
        /\ scene_number = CounterAfterTopic

\* C15 as stated: after the scoring, a publish or the flush raised inside
\* the window loop, no final event has been published for the video, the
\* stitcher accumulator is gone, and the object holds no emitter state of
\* the aborted video (its cursor and counter are as when the video began).
C15_AbortDiscards ==
    (file = 1 /\ error \in {"predict_raw", "produce", "flush"}) =>
        /\ \A k \in 1..Len(topic) :
             ~(topic[k].end = max_frame + 1 /\ topic[k].score = 100)
        /\ predictions = <<>>
        /\ prev_scene = 0
        /\ scene_number = 1

\* C16 as stated: after a video failed fatally, main takes the next file of
\* its list.
C16_BatchContinues ==
    (error \in {"decode", "frames[0]"} /\ file < MaxVideos) =>
        ENABLED PredictVideoFail

\* C17 as stated: only outputs of exactly 100 predictions reach the emitter
\* and the stitcher, so every appended core slice has 50 entries.
C17_OnlyFullOutputsUsed ==
    \A w \in 1..Len(predictions) :
        /\ Len(predictions[w].single) = 50
        /\ Len(predictions[w].all) = 50

\* C18: a video of no frames ends in an error outcome: predict_frames
\* returns no predictions and no event is published for it.
C18_EmptyInput ==
    (Started /\ frames = <<>> /\ error # "decode") =>
        /\ pc = "raised"
        /\ error = "frames[0]"
        /\ topic = <<>>
        /\ predictions = <<>>
        /\ single_frame_pred = <<>>
        /\ all_frames_pred = <<>>

C18_Witness ==
    /\ file = 2
    /\ frames = <<>>
    /\ max_frame = 0
    /\ pc = "raised"
    /\ error = "frames[0]"
    /\ topic = <<>>

\* C19 as stated: the end frames of the per-window events are exactly the
\* indices 0..N-1 whose stitched single-frame score exceeds the threshold.
C19_StreamingMatchesOffline ==
    Complete =>
        { PerWindowEvents[k].end : k \in 1..Len(PerWindowEvents) } =
            { x \in 0 .. (Len(frames) - 1) : single_frame_pred[x + 1] > 75 }

\* C20 as stated: after every window, and when predict_frames has returned,
\* every event published for the video has been followed by a flush.
C20_AllFlushed ==
    Started => flushed = Len(topic)

\* Index x of the returned predictions is a 0-to-1 transition: a boundary
\* frame that follows a non-boundary frame.
Rise(x) == x > 0 /\ Boundary(x) /\ ~Boundary(x - 1)

Rises == { x \in Indices : Rise(x) }

\* C21: every interval [start, end] of predictions_to_scenes has
\* 0 <= start <= end <= N-1; each interval starts after the end of the one
\* before it; the intervals closed by 0-to-1 transitions end, in order, at
\* the indices of those boundary frames; and when the last frame is not a
\* boundary frame the last interval ends at N-1.
C21_WellFormed ==
    Extracted =>
        /\ \A k \in 1..Len(scenes) :
            /\ 0 <= scenes[k][1]
            /\ scenes[k][1] <= scenes[k][2]
            /\ scenes[k][2] <= Len(single_frame_pred) - 1
        /\ \A k \in 1..(Len(scenes) - 1) : scenes[k + 1][1] > scenes[k][2]
        /\ Len(scenes) >= Cardinality(Rises)
        /\ \A x \in Rises :
            scenes[Cardinality({ y \in Rises : y <= x })][2] = x
        /\ ~Boundary(Len(single_frame_pred) - 1) =>
            /\ Len(scenes) = Cardinality(Rises) + 1
            /\ scenes[Len(scenes)][2] = Len(single_frame_pred) - 1

C21_Witness ==
    /\ Extracted
    /\ Len(single_frame_pred) = 5
    /\ ~Boundary(0) /\ Boundary(1) /\ ~Boundary(2) /\ Boundary(3) /\ ~Boundary(4)
    /\ Rises = {1, 3}
    /\ scenes = << <<0, 1>>, <<2, 3>>, <<4, 4>> >>

====
